---- MODULE Spec2Model ----
(***************************************************************************)
(* Model of "Zen Of Python/this_decyphered.ipynb": the tokenizer get_words *)
(* and the shift-search loop that decrypts a Caesar-shifted text by        *)
(* counting dictionary words.                                              *)
(*                                                                         *)
(* Text is a sequence of character codes (ord values): 97..122 are 'a'..'z',*)
(* 65..90 are 'A'..'Z', 32 is ' ', 10 is '\n', 9 is '\t', 46 is '.'.        *)
(***************************************************************************)
EXTENDS Integers, Sequences, FiniteSets, TLC

VARIABLES
    plain,       \* the plaintext the ciphertext was made from (never read by the code)
    key,         \* how far the plaintext was rotated to make the ciphertext
    raw,         \* the given cypher string, cell 1
    dictionary,  \* the loaded dictionary: word -> value
    s,           \* the working text
    shift,       \* the shift counter
    matches,     \* the match count
    cypher,      \* the rotated alphabet of the last pass
    switch,      \* the substitution map of the last pass
    words,       \* the tokens the last call of get_words produced
    first26,     \* the working texts produced by the passes with counter 0..25
    seen,        \* the working texts produced by all passes so far
    reported,    \* the value printed as "Shift:"
    pc           \* position in the notebook

vars == <<plain, key, raw, dictionary, s, shift, matches, cypher, switch,
          words, first26, seen, reported, pc>>

-----------------------------------------------------------------------------
(* Bounds of the model *)

\* the search loop is cut off after this many passes
MaxShift == 56

\* longest text the tokenizer specification enumerates
MaxTokLen == 4

-----------------------------------------------------------------------------
(* Program constants *)

\* while matches < 25
Threshold == 25

\* the 26 in DIRECT[26-shift:]+DIRECT[:26-shift]
AlphaLen == 26

\* the default of dictionary.get(word, None); None is falsy
None == 0

Min(a, b) == IF a < b THEN a ELSE b
Max(a, b) == IF a > b THEN a ELSE b

-----------------------------------------------------------------------------
(* str.lower, slicing, zip, translate *)

\* the text as it is, not lowercased
lower_keep(text) == text

\* str.lower on the ASCII range: 'A'..'Z' become 'a'..'z', the rest is kept
lower(text) ==
    [i \in 1..Len(text) |-> IF text[i] \in 65..90 THEN text[i] + 32 ELSE text[i]]

\* 'ABCDEFGHIJKLMNOPQRSTUVWXYZ'.lower()
DIRECT == lower([i \in 1..26 |-> 64 + i])

\* a slice bound of Python: negative counts from the end, then clamped to 0..n
PyIndex(i, n) == IF i < 0 THEN Max(i + n, 0) ELSE Min(i, n)

\* seq[i:]
SliceFrom(seq, i) == SubSeq(seq, PyIndex(i, Len(seq)) + 1, Len(seq))

\* seq[:i]
SliceTo(seq, i) == SubSeq(seq, 1, PyIndex(i, Len(seq)))

\* cypher = DIRECT[26-shift:]+DIRECT[:26-shift]
Cypher(sh) == SliceFrom(DIRECT, AlphaLen - sh) \o SliceTo(DIRECT, AlphaLen - sh)

\* switch = dict(zip(DIRECT,cypher)); s.maketrans(switch) keys it by ord, which
\* is how characters are represented here
Switch(cy) ==
    LET n == Min(Len(DIRECT), Len(cy))
    IN  [c \in {DIRECT[i] : i \in 1..n} |->
            cy[CHOOSE i \in 1..n : DIRECT[i] = c /\ \A j \in (i+1)..n : DIRECT[j] # c]]

\* a translate that drops the characters the table does not map
translate_drop(text, table) ==
    LET keep == SelectSeq(text, LAMBDA c : c \in DOMAIN table)
    IN  [i \in 1..Len(keep) |-> table[keep[i]]]

\* s.translate(translated): mapped characters are replaced, the rest is kept
translate(text, table) ==
    [i \in 1..Len(text) |-> IF text[i] \in DOMAIN table THEN table[text[i]] ELSE text[i]]

-----------------------------------------------------------------------------
(* get_words *)

\* what str.split() without argument treats as whitespace (Latin-1 range)
IsSpace(c) == c \in (9..13) \cup (28..32) \cup {133, 160}

\* text.split(sep) for a one-character sep: the pieces between the
\* occurrences of sep, empty pieces kept, one piece more than occurrences
split_sep(text, sep) ==
    LET at == {i \in 1..Len(text) : text[i] = sep}
        n  == Cardinality(at)
        nth(k) == CHOOSE i \in at : Cardinality({x \in at : x <= i}) = k
    IN  [k \in 1..(n + 1) |->
            SubSeq(text,
                   IF k = 1 THEN 1 ELSE nth(k - 1) + 1,
                   IF k = n + 1 THEN Len(text) ELSE nth(k) - 1)]

RECURSIVE SplitWsAcc(_, _, _)
SplitWsAcc(text, cur, acc) ==
    IF text = <<>> THEN (IF cur = <<>> THEN acc ELSE Append(acc, cur))
    ELSE IF IsSpace(Head(text))
         THEN SplitWsAcc(Tail(text), <<>>, IF cur = <<>> THEN acc ELSE Append(acc, cur))
         ELSE SplitWsAcc(Tail(text), Append(cur, Head(text)), acc)

\* line.split(' '): splits at every single space and keeps empty pieces
split_space(line) == split_sep(line, 32)

\* line.split(): splits on runs of whitespace and yields no empty piece
split_ws(line) == SplitWsAcc(line, <<>>, <<>>)

RECURSIVE YieldFrom(_)
YieldFrom(lines) ==
    IF lines = <<>> THEN <<>> ELSE split_ws(Head(lines)) \o YieldFrom(Tail(lines))

\* def get_words(s): lines = s.split('\n'); for line in lines: yield from line.split()
get_words(text) == YieldFrom(split_sep(text, 10))

-----------------------------------------------------------------------------
(* the match count *)

\* dictionary.get(word, default)
dict_get(d, w, default) == IF w \in DOMAIN d THEN d[w] ELSE default

\* a count of the distinct words of the list the dictionary has
count_distinct(ws, d) ==
    Cardinality({ws[i] : i \in 1..Len(ws)} \cap {w \in DOMAIN d : d[w] # None})

\* for word in [...]: if dictionary.get(word, None): one more match; every
\* position of the list counts, so a word that occurs twice counts twice
CountMatches(ws, d) ==
    Cardinality({i \in 1..Len(ws) : dict_get(d, ws[i], None) # None})

\* a match count that is not zeroed at the start of the pass
matches_kept(prev, ws, d) == prev + CountMatches(ws, d)

\* matches = 0, then matches += 1 for every word of the list the dictionary has
matches_after(prev, ws, d) == CountMatches(ws, d)

-----------------------------------------------------------------------------
(* The inputs: ciphertexts and dictionaries *)

\* "is", "Is", "it", "ugly", "beautiful"
W_is == <<105, 115>>
W_Is == <<73, 115>>
W_it == <<105, 116>>
W_ugly == <<117, 103, 108, 121>>
W_beautiful == <<98, 101, 97, 117, 116, 105, 102, 117, 108>>
\* "jt" is "is" one letter on; "ue" and "uf" are "is" and "it" twelve letters on
W_jt == <<106, 116>>
W_ue == <<117, 101>>
W_uf == <<117, 102>>

\* the separators between the words of a text: ' ', '\n', '  ' in turn
Sep(j) == IF j % 3 = 0 THEN <<32>> ELSE IF j % 3 = 1 THEN <<10>> ELSE <<32, 32>>

RECURSIVE Rep(_, _)
Rep(tok, n) == IF n = 0 THEN <<>> ELSE Rep(tok, n - 1) \o Sep(n) \o tok

\* "* 1 -\nIs is\nis  is ..." with n words "is", then the tail
Text(n, tail) == <<42, 32, 49, 32, 45, 10>> \o W_Is \o Rep(W_is, n - 1) \o tail

\* the plaintexts: 24 words "is" and "Ugly."; 24 words "is", "it!" and "it";
\* the one word "Beautiful"; 25 words "is" and no final newline
Plaintexts ==
    { Text(24, <<32, 85, 103, 108, 121, 46, 10>>),
      Text(24, <<32>> \o W_it \o <<33, 10>> \o W_it),
      <<66>> \o SubSeq(W_beautiful, 2, 9),
      Text(25, <<>>) }

\* the notebook's cypher string (cell 1)
ZenCypher ==
    << 71, 117, 114, 32, 77, 114, 97, 32, 98, 115, 32, 67, 108, 103, 117, 98, 97, 44,
       32, 111, 108, 32, 71, 118, 122, 32, 67, 114, 103, 114, 101, 102, 10, 10, 79, 114,
       110, 104, 103, 118, 115, 104, 121, 32, 118, 102, 32, 111, 114, 103, 103, 114, 101, 32,
       103, 117, 110, 97, 32, 104, 116, 121, 108, 46, 10, 82, 107, 99, 121, 118, 112, 118,
       103, 32, 118, 102, 32, 111, 114, 103, 103, 114, 101, 32, 103, 117, 110, 97, 32, 118,
       122, 99, 121, 118, 112, 118, 103, 46, 10, 70, 118, 122, 99, 121, 114, 32, 118, 102,
       32, 111, 114, 103, 103, 114, 101, 32, 103, 117, 110, 97, 32, 112, 98, 122, 99, 121,
       114, 107, 46, 10, 80, 98, 122, 99, 121, 114, 107, 32, 118, 102, 32, 111, 114, 103,
       103, 114, 101, 32, 103, 117, 110, 97, 32, 112, 98, 122, 99, 121, 118, 112, 110, 103,
       114, 113, 46, 10, 83, 121, 110, 103, 32, 118, 102, 32, 111, 114, 103, 103, 114, 101,
       32, 103, 117, 110, 97, 32, 97, 114, 102, 103, 114, 113, 46, 10, 70, 99, 110, 101,
       102, 114, 32, 118, 102, 32, 111, 114, 103, 103, 114, 101, 32, 103, 117, 110, 97, 32,
       113, 114, 97, 102, 114, 46, 10, 69, 114, 110, 113, 110, 111, 118, 121, 118, 103, 108,
       32, 112, 98, 104, 97, 103, 102, 46, 10, 70, 99, 114, 112, 118, 110, 121, 32, 112,
       110, 102, 114, 102, 32, 110, 101, 114, 97, 39, 103, 32, 102, 99, 114, 112, 118, 110,
       121, 32, 114, 97, 98, 104, 116, 117, 32, 103, 98, 32, 111, 101, 114, 110, 120, 32,
       103, 117, 114, 32, 101, 104, 121, 114, 102, 46, 10, 78, 121, 103, 117, 98, 104, 116,
       117, 32, 99, 101, 110, 112, 103, 118, 112, 110, 121, 118, 103, 108, 32, 111, 114, 110,
       103, 102, 32, 99, 104, 101, 118, 103, 108, 46, 10, 82, 101, 101, 98, 101, 102, 32,
       102, 117, 98, 104, 121, 113, 32, 97, 114, 105, 114, 101, 32, 99, 110, 102, 102, 32,
       102, 118, 121, 114, 97, 103, 121, 108, 46, 10, 72, 97, 121, 114, 102, 102, 32, 114,
       107, 99, 121, 118, 112, 118, 103, 121, 108, 32, 102, 118, 121, 114, 97, 112, 114, 113,
       46, 10, 86, 97, 32, 103, 117, 114, 32, 115, 110, 112, 114, 32, 98, 115, 32, 110,
       122, 111, 118, 116, 104, 118, 103, 108, 44, 32, 101, 114, 115, 104, 102, 114, 32, 103,
       117, 114, 32, 103, 114, 122, 99, 103, 110, 103, 118, 98, 97, 32, 103, 98, 32, 116,
       104, 114, 102, 102, 46, 10, 71, 117, 114, 101, 114, 32, 102, 117, 98, 104, 121, 113,
       32, 111, 114, 32, 98, 97, 114, 45, 45, 32, 110, 97, 113, 32, 99, 101, 114, 115,
       114, 101, 110, 111, 121, 108, 32, 98, 97, 121, 108, 32, 98, 97, 114, 32, 45, 45,
       98, 111, 105, 118, 98, 104, 102, 32, 106, 110, 108, 32, 103, 98, 32, 113, 98, 32,
       118, 103, 46, 10, 78, 121, 103, 117, 98, 104, 116, 117, 32, 103, 117, 110, 103, 32,
       106, 110, 108, 32, 122, 110, 108, 32, 97, 98, 103, 32, 111, 114, 32, 98, 111, 105,
       118, 98, 104, 102, 32, 110, 103, 32, 115, 118, 101, 102, 103, 32, 104, 97, 121, 114,
       102, 102, 32, 108, 98, 104, 39, 101, 114, 32, 81, 104, 103, 112, 117, 46, 10, 65,
       98, 106, 32, 118, 102, 32, 111, 114, 103, 103, 114, 101, 32, 103, 117, 110, 97, 32,
       97, 114, 105, 114, 101, 46, 10, 78, 121, 103, 117, 98, 104, 116, 117, 32, 97, 114,
       105, 114, 101, 32, 118, 102, 32, 98, 115, 103, 114, 97, 32, 111, 114, 103, 103, 114,
       101, 32, 103, 117, 110, 97, 32, 42, 101, 118, 116, 117, 103, 42, 32, 97, 98, 106,
       46, 10, 86, 115, 32, 103, 117, 114, 32, 118, 122, 99, 121, 114, 122, 114, 97, 103,
       110, 103, 118, 98, 97, 32, 118, 102, 32, 117, 110, 101, 113, 32, 103, 98, 32, 114,
       107, 99, 121, 110, 118, 97, 44, 32, 118, 103, 39, 102, 32, 110, 32, 111, 110, 113,
       32, 118, 113, 114, 110, 46, 10, 86, 115, 32, 103, 117, 114, 32, 118, 122, 99, 121,
       114, 122, 114, 97, 103, 110, 103, 118, 98, 97, 32, 118, 102, 32, 114, 110, 102, 108,
       32, 103, 98, 32, 114, 107, 99, 121, 110, 118, 97, 44, 32, 118, 103, 32, 122, 110,
       108, 32, 111, 114, 32, 110, 32, 116, 98, 98, 113, 32, 118, 113, 114, 110, 46, 10,
       65, 110, 122, 114, 102, 99, 110, 112, 114, 102, 32, 110, 101, 114, 32, 98, 97, 114,
       32, 117, 98, 97, 120, 118, 97, 116, 32, 116, 101, 114, 110, 103, 32, 118, 113, 114,
       110, 32, 45, 45, 32, 121, 114, 103, 39, 102, 32, 113, 98, 32, 122, 98, 101, 114,
       32, 98, 115, 32, 103, 117, 98, 102, 114, 33 >>

\* what "import this" prints (cell 7), without the line end print adds
ZenPlain ==
    << 84, 104, 101, 32, 90, 101, 110, 32, 111, 102, 32, 80, 121, 116, 104, 111, 110, 44,
       32, 98, 121, 32, 84, 105, 109, 32, 80, 101, 116, 101, 114, 115, 10, 10, 66, 101,
       97, 117, 116, 105, 102, 117, 108, 32, 105, 115, 32, 98, 101, 116, 116, 101, 114, 32,
       116, 104, 97, 110, 32, 117, 103, 108, 121, 46, 10, 69, 120, 112, 108, 105, 99, 105,
       116, 32, 105, 115, 32, 98, 101, 116, 116, 101, 114, 32, 116, 104, 97, 110, 32, 105,
       109, 112, 108, 105, 99, 105, 116, 46, 10, 83, 105, 109, 112, 108, 101, 32, 105, 115,
       32, 98, 101, 116, 116, 101, 114, 32, 116, 104, 97, 110, 32, 99, 111, 109, 112, 108,
       101, 120, 46, 10, 67, 111, 109, 112, 108, 101, 120, 32, 105, 115, 32, 98, 101, 116,
       116, 101, 114, 32, 116, 104, 97, 110, 32, 99, 111, 109, 112, 108, 105, 99, 97, 116,
       101, 100, 46, 10, 70, 108, 97, 116, 32, 105, 115, 32, 98, 101, 116, 116, 101, 114,
       32, 116, 104, 97, 110, 32, 110, 101, 115, 116, 101, 100, 46, 10, 83, 112, 97, 114,
       115, 101, 32, 105, 115, 32, 98, 101, 116, 116, 101, 114, 32, 116, 104, 97, 110, 32,
       100, 101, 110, 115, 101, 46, 10, 82, 101, 97, 100, 97, 98, 105, 108, 105, 116, 121,
       32, 99, 111, 117, 110, 116, 115, 46, 10, 83, 112, 101, 99, 105, 97, 108, 32, 99,
       97, 115, 101, 115, 32, 97, 114, 101, 110, 39, 116, 32, 115, 112, 101, 99, 105, 97,
       108, 32, 101, 110, 111, 117, 103, 104, 32, 116, 111, 32, 98, 114, 101, 97, 107, 32,
       116, 104, 101, 32, 114, 117, 108, 101, 115, 46, 10, 65, 108, 116, 104, 111, 117, 103,
       104, 32, 112, 114, 97, 99, 116, 105, 99, 97, 108, 105, 116, 121, 32, 98, 101, 97,
       116, 115, 32, 112, 117, 114, 105, 116, 121, 46, 10, 69, 114, 114, 111, 114, 115, 32,
       115, 104, 111, 117, 108, 100, 32, 110, 101, 118, 101, 114, 32, 112, 97, 115, 115, 32,
       115, 105, 108, 101, 110, 116, 108, 121, 46, 10, 85, 110, 108, 101, 115, 115, 32, 101,
       120, 112, 108, 105, 99, 105, 116, 108, 121, 32, 115, 105, 108, 101, 110, 99, 101, 100,
       46, 10, 73, 110, 32, 116, 104, 101, 32, 102, 97, 99, 101, 32, 111, 102, 32, 97,
       109, 98, 105, 103, 117, 105, 116, 121, 44, 32, 114, 101, 102, 117, 115, 101, 32, 116,
       104, 101, 32, 116, 101, 109, 112, 116, 97, 116, 105, 111, 110, 32, 116, 111, 32, 103,
       117, 101, 115, 115, 46, 10, 84, 104, 101, 114, 101, 32, 115, 104, 111, 117, 108, 100,
       32, 98, 101, 32, 111, 110, 101, 45, 45, 32, 97, 110, 100, 32, 112, 114, 101, 102,
       101, 114, 97, 98, 108, 121, 32, 111, 110, 108, 121, 32, 111, 110, 101, 32, 45, 45,
       111, 98, 118, 105, 111, 117, 115, 32, 119, 97, 121, 32, 116, 111, 32, 100, 111, 32,
       105, 116, 46, 10, 65, 108, 116, 104, 111, 117, 103, 104, 32, 116, 104, 97, 116, 32,
       119, 97, 121, 32, 109, 97, 121, 32, 110, 111, 116, 32, 98, 101, 32, 111, 98, 118,
       105, 111, 117, 115, 32, 97, 116, 32, 102, 105, 114, 115, 116, 32, 117, 110, 108, 101,
       115, 115, 32, 121, 111, 117, 39, 114, 101, 32, 68, 117, 116, 99, 104, 46, 10, 78,
       111, 119, 32, 105, 115, 32, 98, 101, 116, 116, 101, 114, 32, 116, 104, 97, 110, 32,
       110, 101, 118, 101, 114, 46, 10, 65, 108, 116, 104, 111, 117, 103, 104, 32, 110, 101,
       118, 101, 114, 32, 105, 115, 32, 111, 102, 116, 101, 110, 32, 98, 101, 116, 116, 101,
       114, 32, 116, 104, 97, 110, 32, 42, 114, 105, 103, 104, 116, 42, 32, 110, 111, 119,
       46, 10, 73, 102, 32, 116, 104, 101, 32, 105, 109, 112, 108, 101, 109, 101, 110, 116,
       97, 116, 105, 111, 110, 32, 105, 115, 32, 104, 97, 114, 100, 32, 116, 111, 32, 101,
       120, 112, 108, 97, 105, 110, 44, 32, 105, 116, 39, 115, 32, 97, 32, 98, 97, 100,
       32, 105, 100, 101, 97, 46, 10, 73, 102, 32, 116, 104, 101, 32, 105, 109, 112, 108,
       101, 109, 101, 110, 116, 97, 116, 105, 111, 110, 32, 105, 115, 32, 101, 97, 115, 121,
       32, 116, 111, 32, 101, 120, 112, 108, 97, 105, 110, 44, 32, 105, 116, 32, 109, 97,
       121, 32, 98, 101, 32, 97, 32, 103, 111, 111, 100, 32, 105, 100, 101, 97, 46, 10,
       78, 97, 109, 101, 115, 112, 97, 99, 101, 115, 32, 97, 114, 101, 32, 111, 110, 101,
       32, 104, 111, 110, 107, 105, 110, 103, 32, 103, 114, 101, 97, 116, 32, 105, 100, 101,
       97, 32, 45, 45, 32, 108, 101, 116, 39, 115, 32, 100, 111, 32, 109, 111, 114, 101,
       32, 111, 102, 32, 116, 104, 111, 115, 101, 33 >>

\* the Caesar shift that made the cypher string: letters move k places on,
\* upper and lower case alike, the rest is kept
Encode(text, k) ==
    [i \in 1..Len(text) |->
        IF text[i] \in 97..122 THEN 97 + ((text[i] - 97 + k) % 26)
        ELSE IF text[i] \in 65..90 THEN 65 + ((text[i] - 65 + k) % 26)
        ELSE text[i]]

\* a dictionary with the given words, each mapped to a truthy value
DictOf(ws) == [w \in ws |-> 1]

\* "the", "better", "than"
W_the == <<116, 104, 101>>
W_better == <<98, 101, 116, 116, 101, 114>>
W_than == <<116, 104, 97, 110>>

Dictionaries ==
    { DictOf({W_is, W_ugly, W_beautiful}),
      DictOf({W_is, W_ugly, W_beautiful, W_it, W_jt}),
      DictOf({W_is, W_ugly, W_beautiful, W_it, W_ue, W_uf}) }

\* the dictionaries the notebook's own text is tried with: in the first its
\* ten words "is" are all that match
ZenDictionaries ==
    { DictOf({W_is, W_ugly, W_beautiful}),
      DictOf({W_is, W_ugly, W_beautiful, W_the, W_better, W_than}) }

-----------------------------------------------------------------------------
(* The notebook *)

\* cells 1 and 4 have run: s holds the cypher string, the dictionary is loaded
Init ==
    /\ \/ /\ plain \in Plaintexts
          /\ key \in 0..25
          /\ raw = Encode(plain, key)
          /\ dictionary \in Dictionaries
       \/ /\ plain = ZenPlain
          /\ key = 13
          /\ raw = ZenCypher
          /\ dictionary \in ZenDictionaries
    /\ s = raw
    /\ shift = 0
    /\ matches = 0
    /\ cypher = <<>>
    /\ switch = <<>>
    /\ words = <<>>
    /\ first26 = {}
    /\ seen = {}
    /\ reported = -1
    /\ pc = "lower"

\* s = s.lower(); shift = 0; matches = 0
Lower ==
    /\ pc = "lower"
    /\ s' = lower(s)
    /\ shift' = 0
    /\ matches' = 0
    /\ pc' = "loop"
    /\ UNCHANGED <<plain, key, raw, dictionary, cypher, switch, words, first26,
                   seen, reported>>

\* one pass of the body of "while matches < 25"
Iterate ==
    /\ pc = "loop"
    /\ matches < Threshold
    /\ shift < MaxShift
    /\ LET cy == Cypher(shift)
           sw == Switch(cy)
           t  == translate(s, sw)
           ws == get_words(t)
       IN  /\ cypher' = cy
           /\ switch' = sw
           /\ s' = t
           /\ words' = ws
           /\ matches' = matches_after(matches, ws, dictionary)
           /\ first26' = IF shift < AlphaLen THEN first26 \cup {t} ELSE first26
           /\ seen' = seen \cup {t}
    /\ shift' = shift + 1
    /\ UNCHANGED <<plain, key, raw, dictionary, reported, pc>>

\* the loop condition fails: print("Shift:", shift-1, "\n", s)
Report ==
    /\ pc = "loop"
    /\ matches >= Threshold
    /\ reported' = shift - 1
    /\ pc' = "done"
    /\ UNCHANGED <<plain, key, raw, dictionary, s, shift, matches, cypher, switch,
                   words, first26, seen>>

Next == Lower \/ Iterate \/ Report

Spec == Init /\ [][Next]_vars

-----------------------------------------------------------------------------
(* get_words on its own, on every short text *)

TokChars == {97, 46, 32, 10, 9}

TokInit ==
    /\ s \in UNION {[1..n -> TokChars] : n \in 0..MaxTokLen}
    /\ plain = s
    /\ key = 0
    /\ raw = s
    /\ dictionary = DictOf({})
    /\ shift = 0
    /\ matches = 0
    /\ cypher = <<>>
    /\ switch = <<>>
    /\ words = <<>>
    /\ first26 = {}
    /\ seen = {}
    /\ reported = -1
    /\ pc = "tok"

\* [word for word in get_words(s)]
Tokenize ==
    /\ pc = "tok"
    /\ words' = get_words(s)
    /\ pc' = "tokdone"
    /\ UNCHANGED <<plain, key, raw, dictionary, s, shift, matches, cypher, switch,
                   first26, seen, reported>>

SpecWords == TokInit /\ [][Tokenize]_vars

-----------------------------------------------------------------------------
(* What the properties below are stated with *)

\* text with each of 'A'..'Z' replaced by its lowercase letter
Lowercased(text) ==
    [i \in 1..Len(text) |->
        IF \E j \in 1..26 : text[i] = 64 + j THEN 96 + (text[i] - 64) ELSE text[i]]

\* text with every lowercase letter moved r places back in the alphabet
Rot(text, r) ==
    [i \in 1..Len(text) |->
        IF text[i] \in 97..122 THEN 97 + ((text[i] - 97 + 26 - (r % 26)) % 26)
        ELSE text[i]]

\* the positions where a maximal run of non-whitespace characters begins
Starts(text) ==
    {i \in 1..Len(text) : ~IsSpace(text[i]) /\ (i = 1 \/ IsSpace(text[i - 1]))}

\* the last position of the run that begins at i
RunEnd(text, i) ==
    CHOOSE j \in i..Len(text) :
        /\ \A m \in i..j : ~IsSpace(text[m])
        /\ j = Len(text) \/ IsSpace(text[j + 1])

RunAt(text, i) == SubSeq(text, i, RunEnd(text, i))

\* the maximal runs of non-whitespace characters, left to right
MaximalRuns(text) ==
    LET st == Starts(text)
        nth(k) == CHOOSE i \in st : Cardinality({x \in st : x <= i}) = k
    IN  [k \in 1..Cardinality(st) |-> RunAt(text, nth(k))]

\* how many tokens of text are words of the dictionary d
TokensFound(text, d) ==
    Cardinality({i \in Starts(text) : RunAt(text, i) \in DOMAIN d})

OnlySpace(text) == \A i \in 1..Len(text) : IsSpace(text[i])

\* a pass of the loop has run
Passed == pc \in {"loop", "done"} /\ shift > 0

-----------------------------------------------------------------------------
(* C1: the loop is an absolute Caesar search over all 26 shifts: when the   *)
(* lowercased plaintext has at least Threshold dictionary tokens, some pass *)
(* produces exactly the lowercased plaintext (and the loop then stops).     *)
(* From counter 53 on the map is the identity and the text no longer        *)
(* changes, so a text not produced by then is never produced.               *)
C1_AllShiftsSearched ==
    (TokensFound(Lowercased(plain), dictionary) >= Threshold /\ shift > 2 * AlphaLen + 1)
        => Lowercased(plain) \in seen

(* C2: after the first pass, every pass rotates the working text by exactly *)
(* one alphabet position (in either direction).                             *)
C2_RotatesByOne ==
    [][(pc = "loop" /\ shift >= 1 /\ shift' = shift + 1)
          => (s' = Rot(s, 1) \/ s' = Rot(s, 25))]_vars

(* C3: when the loop has stopped, the reported value shift-1 is in 0..25    *)
(* and is, modulo 26, the net rotation that turns the lowercased input into *)
(* the working text.                                                        *)
C3_ReportedIsNetRotation ==
    pc = "done" =>
        /\ reported \in 0..25
        /\ (s = Rot(Lowercased(raw), reported) \/ s = Rot(Lowercased(raw), 26 - reported))

(* C4: for a ROT13 ciphertext whose lowercased plaintext reaches the        *)
(* threshold, unless an earlier pass already stopped the loop, the loop     *)
(* stops after the pass with counter 13, reports 13 and holds exactly the   *)
(* lowercased plaintext, punctuation and line structure included.           *)
C4_Rot13Decoded ==
    (pc # "lower" /\ key = 13 /\ TokensFound(Lowercased(plain), dictionary) >= Threshold)
        => /\ shift <= 14
           /\ shift = 14 => (s = Lowercased(plain) /\ matches >= Threshold)
           /\ (pc = "done" /\ reported >= 13) => (reported = 13 /\ s = Lowercased(plain))

\* the notebook's own run: Shift: 13 and the Zen of Python in lowercase
C4_Witness ==
    /\ pc = "done" /\ raw = ZenCypher /\ key = 13 /\ reported = 13
    /\ s = Lowercased(ZenPlain) /\ s # ZenPlain
    /\ \E i \in 1..Len(s) : s[i] = 33
    /\ \E i \in 1..Len(s) : s[i] = 10

(* C5: when no rotation of the text reaches the threshold, the search stops *)
(* with a failure after exactly 26 attempts: there is no 27th pass, so the  *)
(* counter exceeds 26 only if some rotation does reach the threshold.       *)
C5_StopsAfterOneCycle ==
    shift > AlphaLen
        => \E r \in 0..25 : TokensFound(Rot(Lowercased(raw), r), dictionary) >= Threshold

(* C6: every pass leaves the non-letters alone: the working text keeps the  *)
(* length of the lowercased input, holds the same character wherever that   *)
(* holds a non-letter and a lowercase letter wherever that holds a letter,  *)
(* so the tokens begin and end where they did.                              *)
C6_NonLettersKept ==
    pc # "lower" =>
        LET low == Lowercased(raw)
        IN  /\ Len(s) = Len(low)
            /\ \A i \in 1..Len(low) :
                  IF low[i] \in 97..122 THEN s[i] \in 97..122 ELSE s[i] = low[i]
            /\ Starts(s) = Starts(low)
            /\ \A i \in Starts(low) : RunEnd(s, i) = RunEnd(low, i)

C6_Witness ==
    /\ Passed /\ shift >= 3 /\ s # Lowercased(raw)
    /\ \E i \in 1..Len(raw) : raw[i] \in 65..90
    /\ \E i \in 1..Len(s) : s[i] = 46
    /\ \E i \in 1..Len(s) : s[i] = 10
    /\ \E i \in 1..Len(s) : s[i] = 49

(* C7: the count the loop condition tests is the number of tokens of the    *)
(* working text that the dictionary has, repeated tokens counted each time  *)
(* and nothing carried over from earlier passes; the loop stops only on a   *)
(* count of at least 25, and a pass that ends with such a count is the last.*)
C7_ThresholdBoundary ==
    /\ [](Passed => matches = TokensFound(s, dictionary))
    /\ [](pc = "done" => (TokensFound(s, dictionary) >= Threshold
                            /\ reported = shift - 1))
    /\ [][(Passed /\ TokensFound(s, dictionary) >= Threshold)
              => (pc' = "done" /\ s' = s /\ shift' = shift)]_vars
    /\ [][(pc = "loop" /\ pc' = "done")
              => TokensFound(s, dictionary) >= Threshold]_vars

C7_Witness ==
    /\ pc = "done" /\ matches = Threshold
    /\ \E t \in seen : TokensFound(t, dictionary) = Threshold - 1

(* C8: get_words yields exactly the maximal runs of non-whitespace          *)
(* characters, in input order, never an empty token, nothing for a text of  *)
(* whitespace only, and keeps the punctuation of a token.                   *)
C8_GetWords ==
    (pc = "tokdone" \/ Passed) =>
        /\ words = MaximalRuns(s)
        /\ \A i \in 1..Len(words) : words[i] # <<>>
        /\ OnlySpace(s) => words = <<>>

C8_Witness ==
    /\ pc = "tokdone"
    /\ s = <<97, 46, 32, 10>>
    /\ words = << <<97, 46>> >>

(* C9: for every counter value the substitution map is one-to-one on the 26 *)
(* letters and is the map built for the counter modulo 26.                  *)
C9_MapModulo26 ==
    Passed =>
        /\ DOMAIN switch = 97..122
        /\ \A a, b \in DOMAIN switch : switch[a] = switch[b] => a = b
        /\ switch = Switch(Cypher((shift - 1) % AlphaLen))

(* C10: when none of the passes with counter 0..25 reaches the threshold,   *)
(* no later pass does and the loop does not stop: every later working text  *)
(* was produced by one of the first 26 passes; from counter 53 on the       *)
(* alphabet is no longer rotated at all, so the text stays as it is.        *)
C10_NoNewTextAfterCycle ==
    shift > AlphaLen =>
        /\ s \in first26
        /\ matches < Threshold
        /\ pc = "loop"
        /\ shift > 2 * AlphaLen + 1 => cypher = DIRECT

C10_Witness ==
    /\ pc = "loop" /\ shift = 2 * AlphaLen + 3
    /\ Cardinality(first26) > 10
    /\ TokensFound(Lowercased(plain), dictionary) = Threshold - 1

====
